---- MODULE Spec2Model ----
(***************************************************************************)
(* A model of duolingo.py: the dependency-order resolver                   *)
(* (_compute_dependency_order), get_learned_skills, the language switch    *)
(* (_switch_language and its callers) and the lazily fetched homepage      *)
(* (_homepage and the accessors built on it).                              *)
(***************************************************************************)
EXTENDS Integers, Sequences, FiniteSets, TLC

VARIABLES
    skills,            \* user_data.language_data[lang]['skills']: the list of skill records
    dependency_order,  \* skill['dependency_order'] of each record (Absent: no such field)
    pc,                \* "idle", or "loop" inside the while of _compute_dependency_order
    index,             \* local index of _compute_dependency_order
    previous_skill,    \* local previous_skill of _compute_dependency_order
    result,            \* how the latest get_learned_skills call ended
    calls,             \* number of get_learned_skills calls started on these records
    visited_keys,      \* history: keys the running call has finished an iteration for
    visited,           \* history: records the latest call assigned an order to
    ever_visited,      \* history: records any call assigned an order to
    first_run,         \* history: dependency_order and result at the end of the first call
    user_data,         \* self.user_data: the profile snapshot (id: which fetch produced it)
    fetches,           \* number of _get_data calls made so far
    last_call,         \* history: what the latest get_language_progress / get_calendar did
    homepage_text,     \* self._homepage_text
    tts_voices,        \* self._tts_voices
    cloudfront_server_url,  \* self._cloudfront_server_url
    requests,          \* number of session.get(homepage_url) made so far
    media_pc,          \* "idle", or "_homepage" while a call is inside the _homepage property
    pending,           \* the get_audio_url / get_language_voices call that is running
    depth,             \* nesting depth of the running _homepage accesses
    media_result       \* how the latest get_audio_url / get_language_voices ended

skillVars == <<skills, dependency_order, pc, index, previous_skill, result, calls,
               visited_keys, visited, ever_visited, first_run>>

switchVars == <<user_data, fetches, last_call>>

mediaVars == <<homepage_text, tts_voices, cloudfront_server_url, requests, media_pc,
               pending, depth, media_result>>

vars == <<skillVars, switchVars, mediaVars>>

----------------------------------------------------------------------------
(* Bounds of the model. *)

\* longest skill list of the unconstrained inputs
MaxSkills == 3
\* largest well-formed dependency forest
MaxForest == 5
\* iterations of the while loop the model follows before it stops following a walk
MaxIndex == 7
\* get_learned_skills calls made on one set of records
MaxCalls == 2

\* dependency_order of a record that has no such field
Absent == -1

\* skill names of the unconstrained inputs; "" is a legal JSON string
Names == {"", "a", "b"}

\* dependencies_name lists of the unconstrained inputs
DepLists == {<< >>} \cup {<<n>> : n \in Names} \cup {<<n, m>> : n, m \in Names}

SkillRecords == [name : Names, dependencies_name : DepLists, learned : BOOLEAN]

\* every skill list of at most MaxSkills records
AnySkillLists == UNION {[1..n -> SkillRecords] : n \in 0..MaxSkills}

----------------------------------------------------------------------------
(* Well-formed inputs: a forest of n skills with distinct non-empty names, *)
(* each skill listing at most one predecessor, which is in the set.        *)

RECURSIVE ReachesRoot(_, _, _)
ReachesRoot(par, i, fuel) ==
    IF i = 0 THEN TRUE
    ELSE IF fuel = 0 THEN FALSE
    ELSE ReachesRoot(par, par[i], fuel - 1)

IsForest(par, n) == \A i \in 1..n : ReachesRoot(par, i, n)

\* Skill i is named ToString(i).  The resolver never reads learned; the
\* well-formed inputs take every skill as learned, and Spec varies the flag.
ForestSkills(par, n) ==
    [i \in 1..n |->
        [name |-> ToString(i),
         dependencies_name |-> IF par[i] = 0 THEN << >> ELSE <<ToString(par[i])>>,
         learned |-> TRUE]]

\* the well-formed skill lists of at most MaxForest skills, in every list order
IsForestSkillList(list) ==
    \E n \in 0..MaxForest : \E par \in [1..n -> 0..n] :
        /\ IsForest(par, n)
        /\ list = ForestSkills(par, n)

----------------------------------------------------------------------------
(* _compute_dependency_order *)

\* the key a skill is filed under in dependency_to_skill
DependencyKey(skill) ==
    IF skill.dependencies_name # << >> THEN Head(skill.dependencies_name) ELSE ""

\* dependency_to_skill.getlist(key), as the set of positions in skills
getlist(key) == {i \in DOMAIN skills : DependencyKey(skills[i]) = key}

\* set(dependency_to_skill.keys())
keys == {DependencyKey(skills[i]) : i \in DOMAIN skills}

skill_names(key) == {skills[i].name : i \in getlist(key)}

canonical_dependency(key) == skill_names(key) \cap keys

\* the for loop writing a constant instead of index
AssignOrder_NoIndex ==
    [i \in DOMAIN skills |->
        IF i \in getlist(previous_skill) THEN 0 ELSE dependency_order[i]]

\* index incremented before the for loop instead of after it
AssignOrder_IndexAfterIncrement ==
    [i \in DOMAIN skills |->
        IF i \in getlist(previous_skill) THEN index + 1 ELSE dependency_order[i]]

\* the for loop running over skills instead of getlist(previous_skill)
AssignOrder_AllSkills == [i \in DOMAIN skills |-> index]

\* the for loop of one iteration: every skill filed under previous_skill gets index
AssignOrder ==
    [i \in DOMAIN skills |->
        IF i \in getlist(previous_skill) THEN index ELSE dependency_order[i]]

----------------------------------------------------------------------------
(* get_learned_skills *)

\* sorted(skills, key=dependency_order) is stable: ties keep their list order
SortsBefore(ord, i, j) == ord[i] < ord[j] \/ (ord[i] = ord[j] /\ i < j)

SortedSkills(ord) ==
    [p \in DOMAIN skills |->
        CHOOSE i \in DOMAIN skills :
            Cardinality({j \in DOMAIN skills : SortsBefore(ord, j, i)}) = p - 1]

IsLearned(i) == skills[i].learned

\* the return statement: KeyError when a record has no dependency_order
LearnedSkillsResult(ord) ==
    IF \E i \in DOMAIN skills : ord[i] = Absent
    THEN [kind |-> "KeyError", value |-> << >>]
    ELSE [kind |-> "list", value |-> SelectSeq(SortedSkills(ord), IsLearned)]

NoResult == [kind |-> "none", value |-> << >>]

----------------------------------------------------------------------------
(* Actions *)

SkillInit ==
    /\ dependency_order = [i \in DOMAIN skills |-> Absent]
    /\ pc = "idle"
    /\ index = 0
    /\ previous_skill = ""
    /\ result = NoResult
    /\ calls = 0
    /\ visited_keys = {}
    /\ visited = {}
    /\ ever_visited = {}
    /\ first_run = [kind |-> "none", value |-> << >>, order |-> << >>]

\* get_learned_skills up to the while loop of _compute_dependency_order
get_learned_skills ==
    /\ pc = "idle"
    /\ calls < MaxCalls
    /\ pc' = "loop"
    /\ index' = 0
    /\ previous_skill' = ""
    /\ calls' = calls + 1
    /\ result' = NoResult
    /\ visited_keys' = {}
    /\ visited' = {}
    /\ UNCHANGED <<skills, dependency_order, ever_visited, first_run, switchVars, mediaVars>>

\* one iteration of the while loop that goes round again
LoopContinue ==
    /\ pc = "loop"
    /\ index < MaxIndex
    /\ \E next \in canonical_dependency(previous_skill) :
          previous_skill' = next
    /\ dependency_order' = AssignOrder
    /\ index' = index + 1
    /\ visited_keys' = visited_keys \cup {previous_skill}
    /\ visited' = visited \cup getlist(previous_skill)
    /\ ever_visited' = ever_visited \cup getlist(previous_skill)
    /\ UNCHANGED <<skills, pc, result, calls, first_run, switchVars, mediaVars>>

\* the last iteration: break, return skills, and the return of get_learned_skills
LoopBreak ==
    /\ pc = "loop"
    /\ canonical_dependency(previous_skill) = {}
    /\ dependency_order' = AssignOrder
    /\ index' = index + 1
    /\ visited_keys' = visited_keys \cup {previous_skill}
    /\ visited' = visited \cup getlist(previous_skill)
    /\ ever_visited' = ever_visited \cup getlist(previous_skill)
    /\ result' = LearnedSkillsResult(AssignOrder)
    /\ first_run' = IF calls = 1
                    THEN [kind |-> LearnedSkillsResult(AssignOrder).kind,
                          value |-> LearnedSkillsResult(AssignOrder).value,
                          order |-> AssignOrder]
                    ELSE first_run
    /\ pc' = "idle"
    /\ UNCHANGED <<skills, previous_skill, calls, switchVars, mediaVars>>

SkillNext == get_learned_skills \/ LoopContinue \/ LoopBreak

----------------------------------------------------------------------------
(* _switch_language and its callers get_language_progress and get_calendar  *)

\* profile snapshots the model lets the client fetch
MaxFetches == 4

Langs == {"fr", "es", "de"}

\* what request.json() of the switch_language POST can be
SwitchResponses ==
    {[kind |-> "undecodable", lang |-> ""],
     [kind |-> "no_tracking_properties", lang |-> ""],
     [kind |-> "no_learning_language", lang |-> ""]}
    \cup {[kind |-> "echo", lang |-> l] : l \in Langs}

\* what _get_data can meet: a body json() cannot decode, or a profile document
FetchResponses ==
    {[kind |-> "undecodable", language_data |-> {}]}
    \cup {[kind |-> "profile", language_data |-> d] : d \in SUBSET Langs}

\* _is_current_language
is_current_language(abbr) == abbr \in user_data.language_data

\* line 93: the condition under which _switch_language calls _get_data
SwitchRefetches(lang, response) ==
    response.kind = "echo" /\ response.lang = lang

\* the try block raised, so the bare except raises 'Failed to switch language'
SwitchRaises(lang, response, fetched) ==
    \/ response.kind # "echo"
    \/ (SwitchRefetches(lang, response) /\ fetched.kind = "undecodable")

\* self.user_data when _switch_language is left
SwitchedUserData(lang, response, fetched) ==
    IF SwitchRefetches(lang, response) /\ fetched.kind = "profile"
    THEN [id |-> fetches + 1, language_data |-> fetched.language_data]
    ELSE user_data

NoCall == [op |-> "none", lang |-> "", switch |-> "not_called",
           response |-> [kind |-> "none", lang |-> ""],
           id_before |-> 0, read_id |-> 0, outcome |-> "none"]

\* a caller that switches when lang is not current and then reads
\* self.user_data.language_data[lang]
SwitchThenRead(op, lang) ==
    IF is_current_language(lang)
    THEN /\ last_call' = [op |-> op, lang |-> lang, switch |-> "not_called",
                          response |-> [kind |-> "none", lang |-> ""],
                          id_before |-> user_data.id, read_id |-> user_data.id,
                          outcome |-> "returned"]
         /\ UNCHANGED <<user_data, fetches>>
    ELSE \E response \in SwitchResponses, fetched \in FetchResponses :
         /\ SwitchRefetches(lang, response) => fetches < MaxFetches
         /\ fetches' = IF SwitchRefetches(lang, response) THEN fetches + 1 ELSE fetches
         /\ user_data' = SwitchedUserData(lang, response, fetched)
         /\ last_call' =
              IF SwitchRaises(lang, response, fetched)
              THEN [op |-> op, lang |-> lang, switch |-> "raised", response |-> response,
                    id_before |-> user_data.id, read_id |-> 0, outcome |-> "raised"]
              ELSE [op |-> op, lang |-> lang, switch |-> "returned", response |-> response,
                    id_before |-> user_data.id,
                    read_id |-> SwitchedUserData(lang, response, fetched).id,
                    outcome |->
                        IF lang \in SwitchedUserData(lang, response, fetched).language_data
                        THEN "returned" ELSE "KeyError"]

get_language_progress ==
    /\ \E lang \in Langs : SwitchThenRead("get_language_progress", lang)
    /\ UNCHANGED <<skillVars, mediaVars>>

\* get_calendar with a language_abbr
get_calendar ==
    /\ \E language_abbr \in Langs : SwitchThenRead("get_calendar", language_abbr)
    /\ UNCHANGED <<skillVars, mediaVars>>

\* get_calendar without one: returns self.user_data.calendar
get_calendar_default ==
    /\ last_call' = [op |-> "get_calendar", lang |-> "", switch |-> "not_called",
                     response |-> [kind |-> "none", lang |-> ""],
                     id_before |-> user_data.id, read_id |-> 0, outcome |-> "returned"]
    /\ UNCHANGED <<user_data, fetches, skillVars, mediaVars>>

SwitchNext == get_language_progress \/ get_calendar \/ get_calendar_default

----------------------------------------------------------------------------
(* _homepage, _cloudfront_server, _process_tts_voices, _get_voice,          *)
(* get_language_voices and get_audio_url                                    *)

\* nested _homepage accesses the interpreter allows before it raises
\* 'maximum recursion depth exceeded'
MaxDepth == 3
\* homepage requests the model follows
MaxRequests == 4

\* A homepage body: its text is empty or not, and the two patterns the code
\* searches for are in it or not; voices is the language table of the
\* duo.tts_multi_voices fragment.
Bodies ==
    {[is_none |-> FALSE, empty |-> TRUE, voices_found |-> FALSE, voices |-> {},
      server_found |-> FALSE]}
    \cup [is_none : {FALSE}, empty : {FALSE}, voices_found : {TRUE},
          voices : SUBSET Langs, server_found : BOOLEAN]
    \cup [is_none : {FALSE}, empty : {FALSE}, voices_found : {FALSE},
          voices : {{}}, server_found : BOOLEAN]

NoneText == [is_none |-> TRUE, empty |-> TRUE, voices_found |-> FALSE, voices |-> {},
             server_found |-> FALSE]

NoneVoices == [is_none |-> TRUE, voices |-> {}]

\* the tests `if self._homepage_text`, `if not self._tts_voices`
TruthyText(text) == ~text.is_none /\ ~text.empty
TruthyVoices(table) == ~table.is_none /\ table.voices # {}

\* voice argument: None, 'default' or a named voice
Voices == {"None", "default", "f1"}

\* language_abbr is a language code or None
MediaCalls ==
    [op : {"get_audio_url", "get_language_voices"}, lang : Langs \cup {"None"},
     voice : Voices]

\* lines 374-375 and 387-388: without a language_abbr, the first key of
\* self.user_data.language_data, in the order the dict happens to have
DefaultLanguage(call) ==
    IF call.lang = "None"
    THEN {[op |-> call.op, lang |-> l, voice |-> call.voice] : l \in user_data.language_data}
    ELSE {call}

\* _process_tts_voices when _tts_voices is falsy, then the table lookup of
\* _get_voice or get_language_voices, on homepage text `text`
RunVoices(call, text, table) ==
    IF ~TruthyVoices(table) /\ ~text.voices_found
    THEN [table |-> table, outcome |-> "AttributeError"]
    ELSE LET t == IF TruthyVoices(table) THEN table
                  ELSE [is_none |-> FALSE, voices |-> text.voices]
         IN  IF call.op = "get_audio_url" /\ call.voice \notin {"None", "default"}
             THEN [table |-> t, outcome |-> "ok"]
             ELSE IF call.lang \in t.voices
             THEN [table |-> t, outcome |-> "ok"]
             ELSE [table |-> t, outcome |-> "KeyError"]

\* _cloudfront_server on homepage text `text`
RunServer(text, url) ==
    IF url # "None" THEN [url |-> url, outcome |-> "ok"]
    ELSE IF text.server_found THEN [url |-> "https://cloudfront", outcome |-> "ok"]
    ELSE [url |-> url, outcome |-> "AttributeError"]

\* the call from its first statement, with _homepage returning `text`
RunCall(call, text) ==
    LET v == RunVoices(call, text, tts_voices)
        s == RunServer(text, cloudfront_server_url)
    IN  IF v.outcome # "ok"
        THEN [table |-> v.table, url |-> cloudfront_server_url, outcome |-> v.outcome]
        ELSE IF call.op = "get_language_voices"
        THEN [table |-> v.table, url |-> cloudfront_server_url, outcome |-> "voices"]
        ELSE IF s.outcome # "ok"
        THEN [table |-> v.table, url |-> s.url, outcome |-> s.outcome]
        ELSE [table |-> v.table, url |-> s.url, outcome |-> "url"]

\* whether the call reads self._homepage at all
ReadsHomepage(call) ==
    \/ ~TruthyVoices(tts_voices)
    \/ (call.op = "get_audio_url" /\ cloudfront_server_url = "None"
        /\ RunVoices(call, homepage_text, tts_voices).outcome = "ok")

\* get_audio_url or get_language_voices, up to a request for the homepage
MediaCall ==
    /\ media_pc = "idle"
    /\ \E given \in MediaCalls : \E call \in DefaultLanguage(given) :
         IF ReadsHomepage(call) /\ ~TruthyText(homepage_text)
         THEN /\ media_pc' = "_homepage"
              /\ pending' = call
              /\ depth' = 1
              /\ media_result' = "none"
              /\ UNCHANGED <<tts_voices, cloudfront_server_url>>
         ELSE /\ tts_voices' = RunCall(call, homepage_text).table
              /\ cloudfront_server_url' = RunCall(call, homepage_text).url
              /\ media_result' = RunCall(call, homepage_text).outcome
              /\ pending' = call
              /\ UNCHANGED <<media_pc, depth>>
    /\ UNCHANGED <<homepage_text, requests, skillVars, switchVars>>

\* lines 339-342 of _homepage: the request, the assignment, and `return
\* self._homepage`, which returns the text if it is truthy and requests again
\* if it is not
HomepageRequest ==
    /\ media_pc = "_homepage"
    /\ depth < MaxDepth
    /\ requests < MaxRequests
    /\ \E body \in Bodies :
         /\ homepage_text' = body
         /\ requests' = requests + 1
         /\ IF TruthyText(body)
            THEN /\ tts_voices' = RunCall(pending, body).table
                 /\ cloudfront_server_url' = RunCall(pending, body).url
                 /\ media_result' = RunCall(pending, body).outcome
                 /\ media_pc' = "idle"
                 /\ depth' = 0
            ELSE /\ depth' = depth + 1
                 /\ UNCHANGED <<tts_voices, cloudfront_server_url, media_result, media_pc>>
    /\ UNCHANGED <<pending, skillVars, switchVars>>

\* the nesting has reached the interpreter's limit: the call raises
HomepageRecursionError ==
    /\ media_pc = "_homepage"
    /\ depth = MaxDepth
    /\ media_result' = "RecursionError"
    /\ media_pc' = "idle"
    /\ depth' = 0
    /\ UNCHANGED <<homepage_text, tts_voices, cloudfront_server_url, requests, pending,
                   skillVars, switchVars>>

MediaNext == MediaCall \/ HomepageRequest \/ HomepageRecursionError

----------------------------------------------------------------------------
(* Specifications *)

\* the profile part right after __init__
SwitchInit ==
    /\ \E d \in SUBSET Langs : user_data = [id |-> 1, language_data |-> d]
    /\ fetches = 1
    /\ last_call = NoCall

\* the class attributes of lines 332, 333 and 354
MediaInit ==
    /\ homepage_text = NoneText
    /\ tts_voices = NoneVoices
    /\ cloudfront_server_url = "None"
    /\ requests = 0
    /\ media_pc = "idle"
    /\ pending = [op |-> "get_audio_url", lang |-> "fr", voice |-> "None"]
    /\ depth = 0
    /\ media_result = "none"

\* one fixed profile, for the specifications that are about something else
OneProfile ==
    /\ user_data = [id |-> 1, language_data |-> {"fr"}]
    /\ fetches = 1
    /\ last_call = NoCall

\* every skill list of at most MaxSkills records
Init == skills \in AnySkillLists /\ SkillInit /\ OneProfile /\ MediaInit
Next == SkillNext
Spec == Init /\ [][Next]_vars

\* every well-formed dependency forest of at most MaxForest skills
InitForest == IsForestSkillList(skills) /\ SkillInit /\ OneProfile /\ MediaInit
SpecForest == InitForest /\ [][Next]_vars

\* the language switch
InitSwitch == skills = << >> /\ SkillInit /\ SwitchInit /\ MediaInit
SpecSwitch == InitSwitch /\ [][SwitchNext]_vars

\* the lazily fetched homepage
InitMedia == skills = << >> /\ SkillInit /\ OneProfile /\ MediaInit
SpecMedia == InitMedia /\ [][MediaNext]_vars

----------------------------------------------------------------------------
(* Properties of the resolver and of get_learned_skills *)

\* a get_learned_skills call has run to its end and none is running
Returned == pc = "idle" /\ calls >= 1

HasOrder(i) == dependency_order[i] # Absent

\* skill j lists skill i as its (first) dependency
DependsOn(j, i) ==
    /\ skills[j].dependencies_name # << >>
    /\ Head(skills[j].dependencies_name) = skills[i].name

Roots == {i \in DOMAIN skills : skills[i].dependencies_name = << >>}

WellNamed ==
    /\ \A i \in DOMAIN skills : skills[i].name # ""
    /\ \A i, j \in DOMAIN skills : skills[i].name = skills[j].name => i = j

RECURSIVE LeadsToRoot(_, _)
LeadsToRoot(i, fuel) ==
    IF i \in Roots THEN TRUE
    ELSE IF fuel = 0 THEN FALSE
    ELSE \E j \in DOMAIN skills : DependsOn(i, j) /\ LeadsToRoot(j, fuel - 1)

\* one root, and every other skill has exactly the previous skill of the chain
\* as its only dependency
IsLinearChain ==
    /\ WellNamed
    /\ Cardinality(Roots) = 1
    /\ \A i \in DOMAIN skills : Len(skills[i].dependencies_name) <= 1
    /\ \A i \in DOMAIN skills : LeadsToRoot(i, Len(skills))
    /\ \A i, j \in DOMAIN skills :
          (/\ skills[i].dependencies_name # << >>
           /\ skills[i].dependencies_name = skills[j].dependencies_name) => i = j

\* the orders grow strictly from every skill to the skills that depend on it
IncreasingAlongChains ==
    /\ \A i \in DOMAIN skills : HasOrder(i)
    /\ \A i, j \in DOMAIN skills :
          DependsOn(j, i) => dependency_order[i] < dependency_order[j]

\* C1: get_learned_skills returns exactly the learned skills, each once, in
\* ascending dependency_order (so: the empty list when none is learned).
C1_LearnedSkillsSorted ==
    Returned =>
        /\ result.kind = "list"
        /\ {result.value[p] : p \in DOMAIN result.value}
             = {i \in DOMAIN skills : skills[i].learned}
        /\ Len(result.value) = Cardinality({i \in DOMAIN skills : skills[i].learned})
        /\ \A p, q \in DOMAIN result.value :
              p < q => dependency_order[result.value[p]] <= dependency_order[result.value[q]]

\* C2: after the resolver has run, every skill whose dependencies_name is
\* empty has dependency_order 0.
C2_RootsHaveOrderZero ==
    Returned => \A i \in Roots : dependency_order[i] = 0

\* two calls have returned on a set with several roots and a walk at least
\* three groups deep
C2_Witness ==
    /\ Returned
    /\ calls = 2
    /\ Cardinality(Roots) >= 2
    /\ \A i \in Roots : dependency_order[i] = 0
    /\ \E i \in DOMAIN skills : dependency_order[i] >= 2

\* C3: on a linear chain, of any length and in any list order, the resolver
\* gives every skill an order and the orders grow strictly along the chain.
C3_ChainStrictlyIncreasing ==
    (Returned /\ IsLinearChain) => IncreasingAlongChains

\* a chain of at least three skills has been resolved, given out of chain order
C3_Witness ==
    /\ Returned
    /\ IsLinearChain
    /\ Len(skills) >= 3
    /\ \E i, j \in DOMAIN skills : DependsOn(j, i) /\ j < i
    /\ \E i \in DOMAIN skills : dependency_order[i] = Len(skills) - 1

\* C4: on every dependency forest, branching or not, every skill has an order
\* after the resolver has run and the orders grow strictly from root to leaf.
C4_ForestStrictlyIncreasing ==
    Returned => IncreasingAlongChains

\* C5: two skills with the same first dependency both have a dependency_order
\* after the resolver has run, and the same one.
C5_SiblingsShareOrder ==
    Returned =>
        \A i, j \in DOMAIN skills :
            (/\ i # j
             /\ skills[i].dependencies_name # << >>
             /\ skills[j].dependencies_name # << >>
             /\ DependencyKey(skills[i]) = DependencyKey(skills[j]))
            => (HasOrder(i) /\ HasOrder(j) /\ dependency_order[i] = dependency_order[j])

\* C6: the walk never selects as previous_skill a key it has already visited.
C6_NeverRevisitsAKey ==
    pc = "loop" => previous_skill \notin visited_keys

C8_SecondRunSameAsFirst ==
    (Returned /\ calls = 2) =>
        /\ dependency_order = first_run.order
        /\ result.kind = first_run.kind
        /\ result.value = first_run.value

----------------------------------------------------------------------------
(* Properties of the language switch and of the homepage cache *)

\* C9: _switch_language replaces user_data by a freshly fetched profile only
\* when the response echoes the requested code, raises and leaves user_data
\* alone in every other case, and so a caller never reads language_data of
\* the pre-switch snapshot after a switch that returned normally.
C9_SwitchReplacesOrRaises ==
    last_call.switch # "not_called" =>
        /\ user_data.id # last_call.id_before
              => SwitchRefetches(last_call.lang, last_call.response)
        /\ ~SwitchRefetches(last_call.lang, last_call.response)
              => (last_call.switch = "raised" /\ user_data.id = last_call.id_before)
        /\ last_call.switch = "returned" => last_call.read_id # last_call.id_before

\* C10: over any sequence of get_audio_url and get_language_voices calls the
\* homepage is requested at most once, whatever the body, and every access to
\* _homepage returns.
C10_HomepageFetchedOnce ==
    /\ requests <= 1
    /\ media_result # "RecursionError"

====
